---- MODULE Spec2Model ----
(***************************************************************************)
(* podcast-dl: entry selection, the archive ledger, the run of main with   *)
(* its bounded-concurrency workers, the field projector, the ffmpeg        *)
(* post-processing step and the metadata writers.                          *)
(*                                                                         *)
(* Strings that the code inspects character by character (titles, glob     *)
(* rules, key paths, archive keys) are sequences of one-character or       *)
(* one-token strings; JavaScript's falsy "" / undefined is the empty       *)
(* sequence <<>>.                                                          *)
(***************************************************************************)
EXTENDS Integers, Sequences, FiniteSets, TLC

VARIABLES
    feed,          \* feed.items: sequence of items, newest first by convention
    opts,          \* the parsed command line (commander's options)
    ledger,        \* the archive file: [exists |-> BOOLEAN, keys |-> Seq(key)]
    files,         \* output paths that exist on disk
    pc,            \* position of the running function
    targetItems,   \* value returned by getItemsToDownload
    visited,       \* indices whose feed.items[i] the scan has read, in order
    selected,      \* getItemsToDownload has been called
    work,          \* side effects performed so far, in order
    exitStatus,    \* process exit status, "running" until the process ends
    fatal,         \* message of the logErrorAndExit that ended the run, or "none"
    wpc,           \* per selected entry: position of its pipeline invocation
    numEpisodesDownloaded,
    hasErrors,
    object,        \* getFields: the object graph projected
    patterns,      \* getFields: the rule strings
    projected,     \* getFields: the value returned
    ffmpeg,        \* runFfmpeg: its arguments, its command, the two files it touches
    archiveCalls   \* calls of writeToArchive that have read the file and not yet
                   \* rewritten it: [worker |-> index, archiveResult |-> keys read]

vars == <<feed, opts, ledger, files, pc, targetItems, visited, selected, work, exitStatus,
          fatal, wpc, numEpisodesDownloaded, hasErrors, object, patterns, projected,
          ffmpeg, archiveCalls>>

(***************************************************************************)
(* Bounds of the model.                                                    *)
(***************************************************************************)
MaxLen == 3           \* longest feed drawn from ItemPool
MaxOffset == 4        \* largest --offset (exceeds MaxLen)
MaxLimit == 2         \* largest --limit
InstantsPerDay == 2   \* publish instants distinguished within a calendar day
MaxLedger == 2        \* most keys in the ledger file when a run starts
MaxInserts == 3       \* most writeToArchive calls in a row
MaxMainLen == 2       \* longest feed given to a run of main
MaxThreads == 2       \* largest --threads
MaxRules == 2         \* most rules given to getFields
MaxMetaCalls == 3     \* most writeFeedMeta / writeItemMeta calls in a row

NoLimit == 0          \* --limit not given (undefined)
NoDate == -1          \* pubDate / --before / --after not given
NoRegex == <<>>       \* --episode-regex not given

Min(a, b) == IF a < b THEN a ELSE b
Range(s) == {s[k] : k \in 1..Len(s)}
SeqsUpTo(S, n) == UNION {[1..k -> S] : k \in 0..n}

\* s.slice(0, n) for n >= 0
Slice(s, n) == SubSeq(s, 1, Min(n, Len(s)))

\* haystack.includes(needle) for strings, needle non-empty
Contains(hay, needle) ==
    \E k \in 0..(Len(hay) - Len(needle)) :
        SubSeq(hay, k + 1, k + Len(needle)) = needle

(***************************************************************************)
(* Feed items.  link and enclosure.url are represented by the extension of *)
(* their URL path ("" when there is none), "none" when the field is absent *)
(* and "invalid" when the string is not a URL.  item.enclosure is <<>>     *)
(* when the item has no enclosure and <<[url, type]>> when it has one.     *)
(***************************************************************************)
AUDIO_TYPES_TO_EXTS ==
    [t \in {"audio/mpeg", "audio/mp3", "audio/flac", "audio/ogg", "audio/vorbis",
            "audio/mp4", "audio/wav", "audio/x-wav", "audio/aac"} |->
        CASE t \in {"audio/mpeg", "audio/mp3"} -> ".mp3"
          [] t = "audio/flac" -> ".flac"
          [] t \in {"audio/ogg", "audio/vorbis"} -> ".ogg"
          [] t = "audio/mp4" -> ".m4a"
          [] t \in {"audio/wav", "audio/x-wav"} -> ".wav"
          [] OTHER -> ".aac"]

\* AUDIO_TYPES_TO_EXTS is an object literal: a key it does not own is looked
\* up on Object.prototype, whose members are all truthy
ObjectPrototype ==
    [t \in {"constructor", "toString", "toLocaleString", "valueOf", "hasOwnProperty",
            "isPrototypeOf", "propertyIsEnumerable", "__defineGetter__",
            "__defineSetter__", "__lookupGetter__", "__lookupSetter__", "__proto__"} |->
        CASE t = "constructor" -> "Object"
          [] t = "__proto__" -> "Object.prototype"
          [] OTHER -> t]

\* AUDIO_TYPES_TO_EXTS[type], "undefined" when there is no such member
audioTypeExt(type) ==
    IF type \in DOMAIN AUDIO_TYPES_TO_EXTS THEN AUDIO_TYPES_TO_EXTS[type]
    ELSE IF type \in DOMAIN ObjectPrototype THEN ObjectPrototype[type]
    ELSE "undefined"

VALID_AUDIO_EXTS == {AUDIO_TYPES_TO_EXTS[t] : t \in DOMAIN AUDIO_TYPES_TO_EXTS}

\* new URL(url) throws for undefined and for a string that is not a URL
InvalidURL == "TypeError: Invalid URL"
UrlThrows(url) == url \in {"none", "invalid"}

\* getUrlExt: path.extname of the URL's pathname
getUrlExt(url) == IF UrlThrows(url) THEN InvalidURL ELSE url

\* the exception of getUrlExt propagates: the value is InvalidURL, no boolean
getIsAudioUrl(url) ==
    IF getUrlExt(url) = InvalidURL THEN InvalidURL
    ELSE getUrlExt(url) # "" /\ getUrlExt(url) \in VALID_AUDIO_EXTS

\* the ext component of getEpisodeAudioUrlAndExt's result: "null" when
\* unresolved, InvalidURL when getIsAudioUrl throws on the link or on the
\* enclosure's url
getEpisodeAudioExt(item) ==
    IF item.link # "none" /\ UrlThrows(item.link) THEN InvalidURL
    ELSE IF item.link # "none" /\ getIsAudioUrl(item.link) THEN getUrlExt(item.link)
    ELSE IF item.enclosure # <<>> /\ UrlThrows(item.enclosure[1].url) THEN InvalidURL
    ELSE IF item.enclosure # <<>> /\ getIsAudioUrl(item.enclosure[1].url)
        THEN getUrlExt(item.enclosure[1].url)
    ELSE IF item.enclosure # <<>> /\ item.enclosure[1].url # "none"
            /\ audioTypeExt(item.enclosure[1].type) # "undefined"
        THEN audioTypeExt(item.enclosure[1].type)
    ELSE "null"

DayOf(t) == t \div InstantsPerDay

\* dayjs(a).isSame(b, "day"), isBefore, isAfter; an invalid date compares false
isSame(a, b) == a # NoDate /\ b # NoDate /\ DayOf(a) = DayOf(b)
isBefore(a, b) == a # NoDate /\ b # NoDate /\ DayOf(a) < DayOf(b)
isAfter(a, b) == a # NoDate /\ b # NoDate /\ DayOf(a) > DayOf(b)

\* new RegExp(regex).test(title) for a regex made of literal characters
RegexTest(regex, title) == Contains(title, regex)

\* naming.js getArchiveFilename: date stamp, title and extension concatenated
getArchiveFilename(pubDate, name, ext) ==
    (IF pubDate # NoDate THEN <<ToString(DayOf(pubDate)), "-">> ELSE <<>>)
        \o name \o <<ext>>

archiveUrl == "host/feed"

getArchiveKey(prefix, name) == <<prefix, "-">> \o name

ItemKey(item) ==
    getArchiveKey(archiveUrl,
        getArchiveFilename(item.pubDate, item.title, getEpisodeAudioExt(item)))

(***************************************************************************)
(* The archive ledger.                                                     *)
(***************************************************************************)
AbsentLedger == [exists |-> FALSE, keys |-> <<>>]

getArchive(led) == IF led.exists THEN led.keys ELSE <<>>

getIsInArchive(key, led) == key \in Range(getArchive(led))

\* lines 71-75: the file written from the list that was read
pushToArchive(key, archiveResult) ==
    [exists |-> TRUE,
     keys |-> IF key \in Range(archiveResult)
                 THEN archiveResult
                 ELSE Append(archiveResult, key)]

writeToArchive_AlwaysPush(key, led) ==
    [exists |-> TRUE, keys |-> Append(getArchive(led), key)]

\* the file after writeToArchive({key, archive}) has run
writeToArchive(key, led) == pushToArchive(key, getArchive(led))

writeToArchiveYields_AfterRead == TRUE

\* writeToArchive is not async and calls existsSync, readFileSync and
\* writeFileSync only: between its read and its write control does not return
\* to the event loop
writeToArchiveYields == FALSE

(***************************************************************************)
(* Entry selection.                                                        *)
(***************************************************************************)
getLoopControls_IgnoreOffset(offset, length, reverse) ==
    IF reverse
        THEN [startIndex |-> length - 1, reverse |-> TRUE, bound |-> -1]
        ELSE [startIndex |-> 0, reverse |-> FALSE, bound |-> length]

getLoopControls(offset, length, reverse) ==
    IF reverse
        THEN [startIndex |-> length - 1 - offset, reverse |-> TRUE, bound |-> -1]
        ELSE [startIndex |-> 0 + offset, reverse |-> FALSE, bound |-> length]

shouldGo(ctl, i) == IF ctl.reverse THEN i > ctl.bound ELSE i < ctl.bound

next(ctl, i) == IF ctl.reverse THEN i - 1 ELSE i + 1

isValid_NoArchiveCheck(item, o, savedArchive) ==
    /\ ~(o.episodeRegex # NoRegex /\ item.title # <<>>
            /\ ~RegexTest(o.episodeRegex, item.title))
    /\ ~(o.before # NoDate /\ ~isSame(item.pubDate, o.before)
            /\ ~isBefore(item.pubDate, o.before))
    /\ ~(o.after # NoDate /\ ~isSame(item.pubDate, o.after)
            /\ ~isAfter(item.pubDate, o.after))

\* the value of isValid at the end of one loop iteration
isValid(item, o, savedArchive) ==
    /\ ~(o.episodeRegex # NoRegex /\ item.title # <<>>
            /\ ~RegexTest(o.episodeRegex, item.title))
    /\ ~(o.before # NoDate /\ ~isSame(item.pubDate, o.before)
            /\ ~isBefore(item.pubDate, o.before))
    /\ ~(o.after # NoDate /\ ~isSame(item.pubDate, o.after)
            /\ ~isAfter(item.pubDate, o.after))
    /\ ~(ItemKey(item) # <<>> /\ ItemKey(item) \in Range(savedArchive))

Annotate(item, i) ==
    [title |-> item.title, pubDate |-> item.pubDate, link |-> item.link,
     enclosure |-> item.enclosure, _originalIndex |-> i]

\* the while loop: acc.items is `items`, acc.visited the indices read so far;
\* the loop ends with acc.threw when getEpisodeAudioUrlAndExt throws on an item
RECURSIVE ScanFrom(_, _, _, _, _, _)
ScanFrom(ctl, i, acc, f, o, savedArchive) ==
    IF ~shouldGo(ctl, i) THEN acc
    ELSE LET item == f[i + 1]
             pushed == IF isValid(item, o, savedArchive)
                          THEN Append(acc.items, Annotate(item, i))
                          ELSE acc.items
         IN IF getEpisodeAudioExt(item) = InvalidURL
               THEN [items |-> acc.items, visited |-> Append(acc.visited, i),
                     threw |-> TRUE]
               ELSE ScanFrom(ctl, next(ctl, i),
                             [items |-> pushed, visited |-> Append(acc.visited, i),
                              threw |-> FALSE],
                             f, o, savedArchive)

Scan(f, o, led) ==
    ScanFrom(getLoopControls(o.offset, Len(f), o.reverse),
             getLoopControls(o.offset, Len(f), o.reverse).startIndex,
             [items |-> <<>>, visited |-> <<>>, threw |-> FALSE],
             f, o,
             IF o.archive THEN getArchive(led) ELSE <<>>)

\* the outcome of a call that threw
ThrownItems == <<"throw">>

getItemsToDownload_LimitScanned(f, o, led) ==
    IF Scan(f, o, led).threw THEN ThrownItems
    ELSE IF o.limit # NoLimit
        THEN LET lim == [o EXCEPT !.limit = NoLimit]
                 cut == Slice(Scan(f, lim, led).visited, o.limit)
             IN SelectSeq(Scan(f, lim, led).items,
                          LAMBDA it : it._originalIndex \in Range(cut))
        ELSE Scan(f, o, led).items

getItemsToDownload(f, o, led) ==
    IF Scan(f, o, led).threw THEN ThrownItems
    ELSE IF o.limit # NoLimit
        THEN Slice(Scan(f, o, led).items, o.limit)
        ELSE Scan(f, o, led).items

(***************************************************************************)
(* Inputs.                                                                 *)
(***************************************************************************)
Enclosure(url, type) == <<[url |-> url, type |-> type]>>

Mp3Enclosure == Enclosure(".mp3", "audio/mpeg")
NoEnclosure == <<>>

Item(title, pubDate, link, enclosure) ==
    [title |-> title, pubDate |-> pubDate, link |-> link, enclosure |-> enclosure]

\* late on day 2; late on day 1; undated, untitled and without media
ItemA == Item(<<"a">>, 2 * InstantsPerDay + 1, "none", Mp3Enclosure)
ItemB == Item(<<"a", "b">>, InstantsPerDay + 1, ".html", Mp3Enclosure)
ItemBare == Item(<<>>, NoDate, "none", NoEnclosure)

ItemPool == {ItemA, ItemB, ItemBare}

\* an <enclosure> element without a url; an enclosure whose type is a member
\* of Object.prototype
ItemNoUrl == Item(<<"b">>, 1, "none", Enclosure("none", "audio/mpeg"))
ItemInherited == Item(<<"b">>, 1, "none", Enclosure("", "constructor"))

\* the feeds over ItemPool, and feeds with one of the two items above first or last
Feeds ==
    SeqsUpTo(ItemPool, MaxLen)
    \cup {Append(f, it) : f \in SeqsUpTo(ItemPool, MaxLen - 1), it \in {ItemNoUrl}}
    \cup {<<it>> \o f : f \in SeqsUpTo(ItemPool, MaxLen - 1),
                         it \in {ItemNoUrl, ItemInherited}}

\* --before / --after: early on day 1, early on day 2
Befores == {NoDate, InstantsPerDay}
Afters == {NoDate, 2 * InstantsPerDay}
Regexes == {NoRegex, <<"b">>}

\* a feed of ScenarioLen entries, newest first, one per day, all keys distinct
ScenarioLen == 10
ScenarioFeed ==
    [k \in 1..ScenarioLen |->
        Item(<<"a">>, (ScenarioLen + 1 - k) * InstantsPerDay, "none", Mp3Enclosure)]

PresentLedger(keys) == [exists |-> TRUE, keys |-> keys]

DefaultOpts ==
    [offset |-> 0, reverse |-> FALSE, limit |-> NoLimit, episodeRegex |-> NoRegex,
     before |-> NoDate, after |-> NoDate, archive |-> FALSE, list |-> FALSE,
     info |-> FALSE, includeMeta |-> FALSE, feedImage |-> "none",
     override |-> FALSE, threads |-> 1,
     bitrate |-> <<>>, mono |-> FALSE, addMp3Metadata |-> FALSE]

SelectOpts ==
    {[DefaultOpts EXCEPT !.offset = of, !.reverse = rv, !.limit = lm,
                         !.episodeRegex = rx, !.before = bf, !.after = af,
                         !.archive = ar] :
        of \in 0..MaxOffset, rv \in BOOLEAN, lm \in 0..MaxLimit, rx \in Regexes,
        bf \in Befores, af \in Afters, ar \in BOOLEAN}

ScenarioOpts ==
    {[DefaultOpts EXCEPT !.offset = of, !.reverse = rv, !.limit = lm, !.archive = ar] :
        of \in {0, 2}, rv \in BOOLEAN, lm \in {NoLimit, 3}, ar \in BOOLEAN}

\* no runFfmpeg in progress
NoFfmpeg ==
    [itemIndex |-> 0, outputPath |-> <<>>, out |-> "absent", tmp |-> "absent",
     command |-> <<>>, error |-> "none"]

Idle ==
    /\ archiveCalls = {}
    /\ files = {}
    /\ work = <<>>
    /\ exitStatus = "running"
    /\ fatal = "none"
    /\ wpc = <<>>
    /\ numEpisodesDownloaded = 0
    /\ hasErrors = FALSE
    /\ object = <<>>
    /\ patterns = <<>>
    /\ projected = <<>>
    /\ ffmpeg = NoFfmpeg

(***************************************************************************)
(* SpecSelect: getItemsToDownload called on arbitrary arguments.           *)
(***************************************************************************)
InitSelect ==
    /\ \/ /\ feed \in Feeds
          /\ opts \in SelectOpts
          /\ ledger \in {AbsentLedger} \cup
                {PresentLedger(<<ItemKey(it)>>) : it \in ItemPool}
       \/ /\ feed = ScenarioFeed
          /\ opts \in ScenarioOpts
          /\ ledger \in {AbsentLedger} \cup
                {PresentLedger(<<ItemKey(ScenarioFeed[k])>>) : k \in 1..ScenarioLen}
    /\ pc = "call"
    /\ targetItems = <<>>
    /\ visited = <<>>
    /\ selected = FALSE
    /\ Idle

CallGetItemsToDownload ==
    /\ pc = "call"
    /\ IF Scan(feed, opts, ledger).threw
          THEN pc' = "threw" /\ UNCHANGED targetItems
          ELSE /\ targetItems' = getItemsToDownload(feed, opts, ledger)
               /\ pc' = "returned"
    /\ visited' = Scan(feed, opts, ledger).visited
    /\ selected' = TRUE
    /\ UNCHANGED <<feed, opts, archiveCalls, ffmpeg, ledger, files, work, exitStatus, fatal, wpc,
                   numEpisodesDownloaded, hasErrors, object, patterns, projected>>

NextSelect == CallGetItemsToDownload

SpecSelect == InitSelect /\ [][NextSelect]_vars

(***************************************************************************)
(* Properties of selection.                                                *)
(***************************************************************************)
\* the indices of a full scan, as the claim words it: forward offset..length-1
\* ascending, reverse length-1-offset..0 descending
FullScan(offset, length, reverse) ==
    IF offset >= length THEN <<>>
    ELSE IF reverse THEN [k \in 1..(length - offset) |-> length - offset - k]
    ELSE [k \in 1..(length - offset) |-> offset + k - 1]

PosIn(s, x) == CHOOSE k \in 1..Len(s) : s[k] = x

IsSubsequence(sub, full) ==
    /\ \A k \in 1..Len(sub) : sub[k] \in Range(full)
    /\ \A j, k \in 1..Len(sub) : j < k => PosIn(full, sub[j]) < PosIn(full, sub[k])

IndicesOf(its) == [k \in 1..Len(its) |-> its[k]._originalIndex]

Returned == pc = "returned"

SavedArchive == IF opts.archive THEN getArchive(ledger) ELSE <<>>

\* the entry at index i passes (a) regex, (b) before, (c) after, (d) ledger
Passes(i) ==
    LET it == feed[i + 1]
    IN /\ (opts.episodeRegex = NoRegex \/ it.title = <<>>
            \/ Contains(it.title, opts.episodeRegex))
       /\ (opts.before = NoDate
            \/ (it.pubDate # NoDate /\ DayOf(it.pubDate) <= DayOf(opts.before)))
       /\ (opts.after = NoDate
            \/ (it.pubDate # NoDate /\ DayOf(it.pubDate) >= DayOf(opts.after)))
       /\ ItemKey(it) \notin Range(SavedArchive)

FullScanNow == FullScan(opts.offset, Len(feed), opts.reverse)

PassingInOrder == SelectSeq(FullScanNow, Passes)

NoFilters ==
    opts.episodeRegex = NoRegex /\ opts.before = NoDate /\ opts.after = NoDate

DistinctKeys ==
    \A j, k \in 1..Len(feed) : j # k => ItemKey(feed[j]) # ItemKey(feed[k])

\* C1: the list returned by getItemsToDownload is a subsequence of the entries a
\* full scan in the chosen direction visits: every returned entry is the feed
\* entry at a visited index, no index twice, in visitation order.
C1_Subsequence ==
    Returned =>
        /\ IsSubsequence(IndicesOf(targetItems), FullScanNow)
        /\ \A j, k \in 1..Len(targetItems) :
              j # k => targetItems[j]._originalIndex # targetItems[k]._originalIndex
        /\ \A k \in 1..Len(targetItems) :
              LET it == feed[targetItems[k]._originalIndex + 1]
              IN /\ targetItems[k].title = it.title
                 /\ targetItems[k].pubDate = it.pubDate
                 /\ targetItems[k].enclosure = it.enclosure
                 /\ targetItems[k].link = it.link

\* a reverse scan with a filter that drops an entry between two kept ones
C1_Witness ==
    /\ Returned /\ opts.reverse /\ opts.offset = 1 /\ Len(feed) = 3
    /\ IndicesOf(targetItems) = <<1>>

\* C2: with a limit, the result is the first min(limit, m) of the m entries that
\* pass all filters, in visitation order; skipped entries do not consume the
\* limit.  A ScenarioLen-entry feed with limit 3, offset 2, forward, nothing
\* excluded, yields indices 2, 3, 4.
C2_LimitAfterFilter ==
    Returned =>
        /\ opts.limit # NoLimit =>
              IndicesOf(targetItems) =
                  SubSeq(PassingInOrder, 1, Min(opts.limit, Len(PassingInOrder)))
        /\ (/\ feed = ScenarioFeed /\ opts.limit = 3 /\ opts.offset = 2
             /\ ~opts.reverse /\ ~opts.archive)
              => IndicesOf(targetItems) = <<2, 3, 4>>

\* the limit is reached although an earlier visited entry was skipped
C2_Witness ==
    /\ Returned /\ opts.limit = 2 /\ Len(targetItems) = 2
    /\ Len(PassingInOrder) = 2
    /\ Len(visited) = 3
    /\ ~Passes(visited[1])

C2_ScenarioWitness ==
    /\ Returned /\ feed = ScenarioFeed /\ opts.limit = 3 /\ opts.offset = 2
    /\ ~opts.reverse /\ ~opts.archive
    /\ IndicesOf(targetItems) = <<2, 3, 4>>

\* C3: with an archive, no returned entry has its media archive key in the
\* ledger; when the feed's keys are distinct and there is no other filter and
\* no limit, exactly the entries whose key is in the ledger are left out, the
\* rest keeping their order (one of ScenarioLen in the ledger: the other
\* ScenarioLen - 1 are returned).
C3_ArchiveExcluded ==
    (Returned /\ opts.archive) =>
        /\ \A k \in 1..Len(targetItems) :
              ItemKey(feed[targetItems[k]._originalIndex + 1]) \notin Range(getArchive(ledger))
        /\ (DistinctKeys /\ NoFilters /\ opts.limit = NoLimit) =>
              /\ IndicesOf(targetItems) =
                    SelectSeq(FullScanNow,
                        LAMBDA i : ItemKey(feed[i + 1]) \notin Range(getArchive(ledger)))
              /\ (opts.offset = 0 /\ Len(feed) = ScenarioLen /\ Len(getArchive(ledger)) = 1)
                    => Len(targetItems) = ScenarioLen - 1

\* the ledger holds the key of the entry at index 5 and the other nine are returned
C3_Witness ==
    /\ Returned /\ opts.archive /\ feed = ScenarioFeed
    /\ opts.offset = 0 /\ opts.limit = NoLimit /\ ~opts.reverse
    /\ getArchive(ledger) = <<ItemKey(ScenarioFeed[6])>>
    /\ IndicesOf(targetItems) = <<0, 1, 2, 3, 4, 6, 7, 8, 9>>

NewestFirst ==
    /\ \A k \in 1..Len(feed) : feed[k].pubDate # NoDate
    /\ \A j, k \in 1..Len(feed) : j < k => feed[j].pubDate >= feed[k].pubDate

\* C4 as claimed: in both directions the entries at indices 0..offset-1 are never
\* selected, and (without a limit) every other entry that passes is selected.
C4_SkipsMostRecentBothWays ==
    (Returned /\ NewestFirst) =>
        /\ \A k \in 1..Len(targetItems) : targetItems[k]._originalIndex >= opts.offset
        /\ opts.limit = NoLimit =>
              \A i \in 0..(Len(feed) - 1) :
                  (i >= opts.offset /\ Passes(i)) => i \in Range(IndicesOf(targetItems))

\* C4 amended: offset skips the first `offset` entries in visitation order.
\* Forward, indices 0..offset-1 (the most recent) are never selected; in
\* reverse, indices length-offset..length-1 (the oldest) are never selected and
\* the most recent ones stay eligible.  Without a limit every other entry that
\* passes the filters is selected.
C4_SkipsFirstVisited ==
    (Returned /\ NewestFirst) =>
        LET skipped == IF opts.reverse
                          THEN {i \in 0..(Len(feed) - 1) : i >= Len(feed) - opts.offset}
                          ELSE {i \in 0..(Len(feed) - 1) : i < opts.offset}
        IN /\ \A k \in 1..Len(targetItems) :
                 targetItems[k]._originalIndex \notin skipped
           /\ opts.limit = NoLimit =>
                 \A i \in 0..(Len(feed) - 1) :
                     (i \notin skipped /\ Passes(i)) => i \in Range(IndicesOf(targetItems))

\* reverse with offset 2 on the scenario feed: the two oldest are skipped, index 0 selected
C4_Witness ==
    /\ Returned /\ NewestFirst /\ opts.reverse /\ opts.offset = 2
    /\ feed = ScenarioFeed /\ opts.limit = NoLimit /\ ~opts.archive
    /\ IndicesOf(targetItems) = <<7, 6, 5, 4, 3, 2, 1, 0>>

(***************************************************************************)
(* SpecArchive: writeToArchive called repeatedly on an arbitrary ledger.   *)
(* work records each call: the key and the file as it was before the call. *)
(***************************************************************************)
ArchiveKeys == {ItemKey(it) : it \in ItemPool}

InitArchive ==
    /\ ledger \in {AbsentLedger} \cup
            {PresentLedger(ks) : ks \in SeqsUpTo(ArchiveKeys, MaxLedger)}
    /\ feed = <<>>
    /\ opts = [DefaultOpts EXCEPT !.archive = TRUE]
    /\ pc = "archive"
    /\ targetItems = <<>>
    /\ visited = <<>>
    /\ selected = FALSE
    /\ Idle

CallWriteToArchive(key) ==
    /\ pc = "archive"
    /\ Len(work) < MaxInserts
    /\ ledger' = writeToArchive(key, ledger)
    /\ work' = Append(work, [op |-> "writeToArchive", key |-> key, before |-> ledger])
    /\ UNCHANGED <<feed, opts, archiveCalls, ffmpeg, files, pc, targetItems, visited, selected, exitStatus,
                   fatal, wpc,
                   numEpisodesDownloaded, hasErrors, object, patterns, projected>>

NextArchive == \E key \in ArchiveKeys : CallWriteToArchive(key)

SpecArchive == InitArchive /\ [][NextArchive]_vars

NoDuplicates(s) == \A j, k \in 1..Len(s) : j # k => s[j] # s[k]

LastCall == work[Len(work)]

\* C7: writeToArchive with a key already present leaves the stored key list
\* unchanged; the key is stored after the call; a second call with the same
\* key changes nothing; a ledger that starts absent or duplicate-free stays
\* duplicate-free.
C7_IdempotentInsert ==
    Len(work) >= 1 =>
        /\ LastCall.key \in Range(getArchive(ledger))
        /\ getIsInArchive(LastCall.key, LastCall.before)
              => getArchive(ledger) = getArchive(LastCall.before)
        /\ (Len(work) >= 2 /\ work[Len(work) - 1].key = LastCall.key)
              => ledger = LastCall.before
        /\ NoDuplicates(getArchive(work[1].before)) => NoDuplicates(getArchive(ledger))

\* the same key inserted twice in a row into a ledger that did not hold it
C7_Witness ==
    /\ Len(work) = 2
    /\ work[1].key = work[2].key
    /\ ~getIsInArchive(work[1].key, work[1].before)
    /\ work[1].before.exists
    /\ Len(getArchive(ledger)) = Len(getArchive(work[1].before)) + 1

(***************************************************************************)
(* main: one run of the program.                                           *)
(***************************************************************************)
NoEpisodesToList == "No episodes found to list"
NoEpisodesCriteriaList == "No episodes found with provided criteria to list"
NoEpisodesToDownload == "No episodes found to download"
OffsetTooLarge == "--offset too large. No episodes to download."
NoEpisodesCriteriaDownload == "No episodes found with provided criteria to download"

\* logger.js ERROR_STATUSES, and 0 for a clean exit
ERROR_STATUSES ==
    [general |-> "general", nothingDownloaded |-> "nothingDownloaded",
     completedWithErrors |-> "completedWithErrors"]
Success == "success"

FeedTitle == <<"T">>
outputMetaName == FeedTitle \o <<".meta", ".", "json">>

\* const podcastImageUrl = getImageUrl(feed): the image URL the feed carries,
\* "none" when getImageUrl returns null
podcastImageUrl(o) == o.feedImage

\* `${feed.title}.image${podcastImageFileExt}`
podcastImageName(o) == FeedTitle \o <<".image", getUrlExt(podcastImageUrl(o))>>

\* _path.resolve(basePath, name)
OutputPath(name) == <<"basePath", "/">> \o name

\* naming.js getFilename with the default episode template
EpisodePath(item) ==
    OutputPath(getArchiveFilename(item.pubDate, item.title, getEpisodeAudioExt(item)))

Effect(op, level, key) == [op |-> op, level |-> level, key |-> key]

includeMetaBranch_Always(o) == TRUE

\* if (includeMeta)
includeMetaBranch(o) == o.includeMeta

\* async.js download: skip when archived or present locally, else fetch, write the
\* file and insert the key; `ok` is whether the fetch succeeds
download(outputPath, key, level, o, led, fls, ok) ==
    IF o.archive /\ getIsInArchive(key, led)
        THEN [ledger |-> led, files |-> fls, effects |-> <<>>, result |-> "archived"]
    ELSE IF ~o.override /\ outputPath \in fls
        THEN [ledger |-> led, files |-> fls, effects |-> <<>>, result |-> "exists"]
    ELSE IF ~ok
        THEN [ledger |-> led, files |-> fls, effects |-> <<>>, result |-> "threw"]
    ELSE [ledger |-> IF o.archive THEN writeToArchive(key, led) ELSE led,
          files |-> fls \cup {outputPath},
          effects |-> <<Effect("download", level, key)>> \o
                      (IF o.archive THEN <<Effect("writeToArchive", level, key)>> ELSE <<>>),
          result |-> "downloaded"]

writeMetaFile_OverrideFirst(outputPath, key, level, o, led, fls, ok) ==
    IF key # <<>> /\ o.archive /\ getIsInArchive(key, led) /\ ~o.override
        THEN [ledger |-> led, files |-> fls, effects |-> <<>>, result |-> "archived"]
    ELSE IF (o.override \/ outputPath \notin fls) /\ ~ok
        THEN [ledger |-> led, files |-> fls, effects |-> <<>>, result |-> "threw"]
    ELSE [ledger |-> IF key # <<>> /\ o.archive /\ ~getIsInArchive(key, led)
                        THEN writeToArchive(key, led) ELSE led,
          files |-> fls \cup {outputPath},
          effects |-> (IF o.override \/ outputPath \notin fls
                          THEN <<Effect("writeMeta", level, key)>> ELSE <<>>) \o
                      (IF key # <<>> /\ o.archive /\ ~getIsInArchive(key, led)
                          THEN <<Effect("writeToArchive", level, key)>> ELSE <<>>),
          result |-> "returned"]

\* writeFeedMeta / writeItemMeta; `ok` is whether writeMeta's file write succeeds
writeMetaFile(outputPath, key, level, o, led, fls, ok) ==
    IF key # <<>> /\ o.archive /\ getIsInArchive(key, led)
        THEN [ledger |-> led, files |-> fls, effects |-> <<>>, result |-> "archived"]
    ELSE IF (o.override \/ outputPath \notin fls) /\ ~ok
        THEN [ledger |-> led, files |-> fls, effects |-> <<>>, result |-> "threw"]
    ELSE [ledger |-> IF key # <<>> /\ o.archive /\ ~getIsInArchive(key, led)
                        THEN writeToArchive(key, led) ELSE led,
          files |-> fls \cup {outputPath},
          effects |-> (IF o.override \/ outputPath \notin fls
                          THEN <<Effect("writeMeta", level, key)>> ELSE <<>>) \o
                      (IF key # <<>> /\ o.archive /\ ~getIsInArchive(key, led)
                          THEN <<Effect("writeToArchive", level, key)>> ELSE <<>>),
          result |-> "returned"]

\* the exit taken at the end of main
ExitStatusOf_ErrorsFirst(num, errors) ==
    IF errors THEN ERROR_STATUSES.completedWithErrors
    ELSE IF num = 0 THEN ERROR_STATUSES.nothingDownloaded
    ELSE Success

ExitStatusOf(num, errors) ==
    IF num = 0 THEN ERROR_STATUSES.nothingDownloaded
    ELSE IF errors THEN ERROR_STATUSES.completedWithErrors
    ELSE Success

logErrorAndExit(message) ==
    /\ fatal' = message
    /\ exitStatus' = ERROR_STATUSES.general
    /\ pc' = "exited"

\* an exception nothing catches rejects the promise of main(): the process
\* ends on the unhandled rejection, outside logErrorAndExit
UnhandledRejection == "unhandledRejection"

mainRejects ==
    /\ exitStatus' = UnhandledRejection
    /\ pc' = "crashed"
    /\ UNCHANGED fatal

\* lines 207-227 with --list
MainList ==
    /\ pc = "start" /\ opts.list
    /\ IF Len(feed) > 0
          THEN LET o == [opts EXCEPT !.archive = FALSE]
                   items == getItemsToDownload(feed, o, ledger)
               IN /\ visited' = Scan(feed, o, ledger).visited
                  /\ selected' = TRUE
                  /\ IF Scan(feed, o, ledger).threw
                        THEN mainRejects /\ UNCHANGED targetItems
                     ELSE IF Len(items) = 0
                        THEN targetItems' = items /\ logErrorAndExit(NoEpisodesCriteriaList)
                        ELSE /\ targetItems' = items
                             /\ exitStatus' = Success
                             /\ pc' = "exited"
                             /\ UNCHANGED fatal
          ELSE /\ logErrorAndExit(NoEpisodesToList)
               /\ UNCHANGED <<targetItems, visited, selected>>
    /\ UNCHANGED <<feed, opts, archiveCalls, ffmpeg, ledger, files, work, wpc, numEpisodesDownloaded,
                   hasErrors, object, patterns, projected>>

\* lines 225-227 with --info alone
MainInfo ==
    /\ pc = "start" /\ ~opts.list /\ opts.info
    /\ exitStatus' = Success
    /\ pc' = "exited"
    /\ UNCHANGED <<feed, opts, archiveCalls, ffmpeg, ledger, files, targetItems, visited, selected, work,
                   fatal, wpc, numEpisodesDownloaded, hasErrors, object, patterns,
                   projected>>

\* lines 229-253: on to the podcast image, the feed metadata or the checks.
\* getUrlExt(podcastImageUrl) at line 246 runs before the try of line 255: an
\* image URL that new URL rejects makes main reject here.
MainProceed ==
    /\ pc = "start" /\ ~opts.list /\ ~opts.info
    /\ IF ~includeMetaBranch(opts)
          THEN pc' = "checks" /\ UNCHANGED <<exitStatus, fatal>>
       ELSE IF podcastImageUrl(opts) = "none"
          THEN pc' = "feedmeta" /\ UNCHANGED <<exitStatus, fatal>>
       ELSE IF UrlThrows(podcastImageUrl(opts))
          THEN mainRejects
       ELSE pc' = "image" /\ UNCHANGED <<exitStatus, fatal>>
    /\ UNCHANGED <<feed, opts, archiveCalls, ffmpeg, ledger, files, targetItems, visited, selected, work,
                   wpc, numEpisodesDownloaded, hasErrors, object, patterns, projected>>

\* lines 255-267: await download of the podcast image, errors logged
MainDownloadImage(ok) ==
    /\ pc = "image"
    /\ LET r == download(OutputPath(podcastImageName(opts)),
                         getArchiveKey(archiveUrl, podcastImageName(opts)),
                         "feed", opts, ledger, files, ok)
       IN /\ ledger' = r.ledger
          /\ files' = r.files
          /\ work' = work \o r.effects
    /\ pc' = "feedmeta"
    /\ UNCHANGED <<feed, opts, archiveCalls, ffmpeg, targetItems, visited, selected, exitStatus, fatal, wpc,
                   numEpisodesDownloaded, hasErrors, object, patterns, projected>>

\* lines 270-293: writeFeedMeta, errors logged
MainWriteFeedMeta(ok) ==
    /\ pc = "feedmeta"
    /\ LET r == writeMetaFile(OutputPath(outputMetaName),
                              getArchiveKey(archiveUrl, outputMetaName),
                              "feed", opts, ledger, files, ok)
       IN /\ ledger' = r.ledger
          /\ files' = r.files
          /\ work' = work \o r.effects
    /\ pc' = "checks"
    /\ UNCHANGED <<feed, opts, archiveCalls, ffmpeg, targetItems, visited, selected, exitStatus, fatal, wpc,
                   numEpisodesDownloaded, hasErrors, object, patterns, projected>>

\* lines 296-326: the fatal checks around getItemsToDownload
MainSelect ==
    /\ pc = "checks"
    /\ IF Len(feed) = 0
          THEN /\ logErrorAndExit(NoEpisodesToDownload)
               /\ UNCHANGED <<targetItems, visited, selected, wpc>>
       ELSE IF opts.offset >= Len(feed)
          THEN /\ logErrorAndExit(OffsetTooLarge)
               /\ UNCHANGED <<targetItems, visited, selected, wpc>>
       ELSE /\ visited' = Scan(feed, opts, ledger).visited
            /\ selected' = TRUE
            /\ IF Scan(feed, opts, ledger).threw
                  THEN mainRejects /\ UNCHANGED <<targetItems, wpc>>
               ELSE /\ targetItems' = getItemsToDownload(feed, opts, ledger)
                    /\ IF Len(targetItems') = 0
                          THEN /\ logErrorAndExit(NoEpisodesCriteriaDownload)
                               /\ UNCHANGED wpc
                          ELSE /\ wpc' = [k \in 1..Len(targetItems') |-> "queued"]
                               /\ pc' = "downloading"
                               /\ UNCHANGED <<exitStatus, fatal>>
    /\ UNCHANGED <<feed, opts, archiveCalls, ffmpeg, ledger, files, work, numEpisodesDownloaded, hasErrors,
                   object, patterns, projected>>

(***************************************************************************)
(* async.js downloadItemsAsync: at most opts.threads pipeline invocations  *)
(* in flight, the next queued entry starting as one completes.             *)
(***************************************************************************)
InFlight == Cardinality({k \in 1..Len(wpc) : wpc[k] \in {"fetching", "post", "insert"}})

Finished(k) == wpc[k] \in {"skipped", "failed", "succeeded"}

\* Node runs one callback at a time, to completion: a continuation of main or
\* of a pipeline starts only when no synchronous call is on the stack
StackEmpty == writeToArchiveYields \/ archiveCalls = {}

\* the entry's pipeline starts: skipped when its key is in the ledger or its
\* file exists locally and --override is not set
WorkerStart(k) ==
    /\ pc = "downloading" /\ wpc[k] = "queued"
    /\ StackEmpty
    /\ InFlight < opts.threads
    /\ \A j \in 1..(k - 1) : wpc[j] # "queued"
    /\ wpc' = [wpc EXCEPT ![k] =
            IF opts.archive /\ getIsInArchive(ItemKey(targetItems[k]), ledger)
                THEN "skipped"
            ELSE IF ~opts.override /\ EpisodePath(targetItems[k]) \in files
                THEN "skipped"
            ELSE "fetching"]
    /\ UNCHANGED <<feed, opts, archiveCalls, ffmpeg, ledger, files, pc, targetItems, visited,
                   selected, work, exitStatus, fatal, numEpisodesDownloaded, hasErrors,
                   object, patterns, projected>>

\* the primary media request ends: the file is written, or the entry fails
WorkerFetched(k, ok) ==
    /\ pc = "downloading" /\ wpc[k] = "fetching"
    /\ StackEmpty
    /\ IF ok
          THEN /\ files' = files \cup {EpisodePath(targetItems[k])}
               /\ work' = Append(work,
                              Effect("download", "episode", ItemKey(targetItems[k])))
               /\ wpc' = [wpc EXCEPT ![k] = "post"]
               /\ UNCHANGED hasErrors
          ELSE /\ hasErrors' = TRUE
               /\ wpc' = [wpc EXCEPT ![k] = "failed"]
               /\ UNCHANGED <<files, work>>
    /\ UNCHANGED <<feed, opts, archiveCalls, ffmpeg, ledger, pc, targetItems, visited,
                   selected, exitStatus, fatal, numEpisodesDownloaded, object, patterns,
                   projected>>

PostOutcomes == {"clean", "soft", "failed"}

\* the rest of the pipeline ends (secondary downloads, episode metadata,
\* ffmpeg, the hook command).  "failed": an entry-fatal step failed, the entry
\* is not counted and its key is not inserted.  "soft": a secondary download
\* failed, the error flag is set and the entry still succeeds.  On success the
\* entry is counted, after the insertion of its key when --archive is set.
WorkerFinish(k, outcome) ==
    /\ pc = "downloading" /\ wpc[k] = "post"
    /\ StackEmpty
    /\ IF outcome = "failed"
          THEN /\ hasErrors' = TRUE
               /\ wpc' = [wpc EXCEPT ![k] = "failed"]
               /\ UNCHANGED numEpisodesDownloaded
          ELSE /\ hasErrors' = (hasErrors \/ outcome = "soft")
               /\ IF opts.archive
                     THEN /\ wpc' = [wpc EXCEPT ![k] = "insert"]
                          /\ UNCHANGED numEpisodesDownloaded
                     ELSE /\ wpc' = [wpc EXCEPT ![k] = "succeeded"]
                          /\ numEpisodesDownloaded' = numEpisodesDownloaded + 1
    /\ UNCHANGED <<feed, opts, archiveCalls, ffmpeg, ledger, files, pc, targetItems, visited,
                   selected, work, exitStatus, fatal, object, patterns, projected>>

\* writeToArchive lines 68-70, called by the pipeline of entry k: the ledger
\* file is read
ArchiveRead(k) ==
    /\ pc = "downloading" /\ wpc[k] = "insert"
    /\ StackEmpty
    /\ \A c \in archiveCalls : c.worker # k
    /\ archiveCalls' = archiveCalls \cup
            {[worker |-> k, archiveResult |-> getArchive(ledger)]}
    /\ UNCHANGED <<feed, opts, ffmpeg, ledger, files, pc, targetItems, visited, selected,
                   work, exitStatus, fatal, wpc, numEpisodesDownloaded, hasErrors, object,
                   patterns, projected>>

\* writeToArchive lines 71-75 in the same call: the file is rewritten from the
\* list that call read; the pipeline of entry k then ends in success
ArchiveWrite(k) ==
    /\ pc = "downloading" /\ wpc[k] = "insert"
    /\ \E c \in archiveCalls :
          /\ c.worker = k
          /\ ledger' = pushToArchive(ItemKey(targetItems[k]), c.archiveResult)
          /\ archiveCalls' = archiveCalls \ {c}
    /\ work' = Append(work,
                   Effect("writeToArchive", "episode", ItemKey(targetItems[k])))
    /\ wpc' = [wpc EXCEPT ![k] = "succeeded"]
    /\ numEpisodesDownloaded' = numEpisodesDownloaded + 1
    /\ UNCHANGED <<feed, opts, ffmpeg, files, pc, targetItems, visited, selected,
                   exitStatus, fatal, hasErrors, object, patterns, projected>>

\* lines 351-375
MainExit ==
    /\ pc = "downloading"
    /\ StackEmpty
    /\ \A k \in 1..Len(wpc) : Finished(k)
    /\ exitStatus' = ExitStatusOf(numEpisodesDownloaded, hasErrors)
    /\ pc' = "exited"
    /\ UNCHANGED <<feed, opts, archiveCalls, ffmpeg, ledger, files, targetItems, visited, selected, work,
                   fatal, wpc, numEpisodesDownloaded, hasErrors, object, patterns,
                   projected>>

MainFeeds ==
    SeqsUpTo({ItemA, ItemB}, MaxMainLen)
    \cup {Append(f, ItemNoUrl) : f \in SeqsUpTo({ItemA}, MaxMainLen - 1)}

\* --include-meta off, or on with a feed that has no image, an image whose URL
\* parses, or an image whose URL new URL rejects
MetaImage ==
    [none |-> "none", meta |-> "none", image |-> ".jpg", badimage |-> "invalid"]

MainOpts ==
    {[DefaultOpts EXCEPT !.offset = of, !.reverse = rv, !.episodeRegex = rx,
                         !.archive = ar, !.list = (mode = "list"),
                         !.info = (mode = "info"), !.includeMeta = (meta # "none"),
                         !.feedImage = MetaImage[meta], !.override = ov,
                         !.threads = th] :
        of \in 0..MaxMainLen, rv \in BOOLEAN, rx \in Regexes, ar \in BOOLEAN,
        mode \in {"download", "list", "info"}, meta \in DOMAIN MetaImage,
        ov \in BOOLEAN, th \in 1..MaxThreads}

MainLedgers ==
    {AbsentLedger, PresentLedger(<<ItemKey(ItemA)>>),
     PresentLedger(<<getArchiveKey(archiveUrl, outputMetaName)>>)}

MainFiles == {{}, {EpisodePath(ItemA), OutputPath(outputMetaName)}}

InitMain ==
    /\ archiveCalls = {}
    /\ feed \in MainFeeds
    /\ opts \in MainOpts
    /\ ledger \in MainLedgers
    /\ files \in MainFiles
    /\ pc = "start"
    /\ targetItems = <<>>
    /\ visited = <<>>
    /\ selected = FALSE
    /\ work = <<>>
    /\ exitStatus = "running"
    /\ fatal = "none"
    /\ wpc = <<>>
    /\ numEpisodesDownloaded = 0
    /\ hasErrors = FALSE
    /\ object = <<>>
    /\ patterns = <<>>
    /\ projected = <<>>
    /\ ffmpeg = NoFfmpeg

NextMain ==
    \/ MainList
    \/ MainInfo
    \/ MainProceed
    \/ \E ok \in BOOLEAN : MainDownloadImage(ok)
    \/ \E ok \in BOOLEAN : MainWriteFeedMeta(ok)
    \/ MainSelect
    \/ \E k \in 1..Len(wpc) : WorkerStart(k)
    \/ \E k \in 1..Len(wpc), ok \in BOOLEAN : WorkerFetched(k, ok)
    \/ \E k \in 1..Len(wpc), outcome \in PostOutcomes : WorkerFinish(k, outcome)
    \/ \E k \in 1..Len(wpc) : ArchiveRead(k)
    \/ \E k \in 1..Len(wpc) : ArchiveWrite(k)
    \/ MainExit

SpecMain == InitMain /\ [][NextMain]_vars

(***************************************************************************)
(* Properties of a run of main.                                            *)
(***************************************************************************)
Exited == pc = "exited"

OffsetBeyondFeed == opts.offset >= Len(feed)

\* C5 as claimed: with offset >= feed.items.length selection visits nothing and
\* returns an empty list, and every run that reached selection ends in the
\* fatal "offset too large" condition.
C5_AlwaysOffsetTooLarge ==
    (selected /\ OffsetBeyondFeed) =>
        /\ visited = <<>>
        /\ targetItems = <<>>
        /\ Exited => fatal = OffsetTooLarge

\* the image URL of the feed is one that new URL rejects, on the path that
\* computes its extension (--include-meta, neither --list nor --info)
ImageUrlThrows ==
    /\ ~opts.list /\ ~opts.info /\ opts.includeMeta
    /\ podcastImageUrl(opts) # "none" /\ UrlThrows(podcastImageUrl(opts))

\* C5 amended: with offset >= feed.items.length selection visits nothing and
\* returns an empty list, and no episode pipeline starts: the only work such a
\* run does is feed-level (podcast image download, feed metadata write and
\* their ledger insertions) and happens only with --include-meta, before the
\* offset check.  The download path ends in the fatal "offset too large"
\* condition before selection is called (an empty feed ends in "No episodes
\* found to download"), unless --include-meta is set and the feed's image URL
\* is one that new URL rejects: then getUrlExt throws outside any try, main
\* rejects before the checks, and the run ends on the unhandled rejection with
\* no fatal message and no work done.  With --list selection is reached and
\* the run ends in the fatal "No episodes found with provided criteria to
\* list" (an empty feed: "No episodes found to list"); --info alone exits 0.
C5_OffsetBeyondFeed ==
    OffsetBeyondFeed =>
        /\ selected => (visited = <<>> /\ targetItems = <<>>)
        /\ pc # "downloading" /\ wpc = <<>> /\ numEpisodesDownloaded = 0
        /\ \A k \in 1..Len(work) : work[k].level = "feed"
        /\ ~opts.includeMeta => work = <<>>
        /\ pc = "crashed" =>
              /\ ImageUrlThrows
              /\ ~selected /\ work = <<>>
              /\ fatal = "none" /\ exitStatus = UnhandledRejection
        /\ ImageUrlThrows => ~Exited
        /\ Exited =>
              IF opts.list
                 THEN /\ selected = (Len(feed) > 0)
                      /\ fatal = IF Len(feed) > 0 THEN NoEpisodesCriteriaList
                                 ELSE NoEpisodesToList
                      /\ exitStatus = ERROR_STATUSES.general
              ELSE IF opts.info
                 THEN ~selected /\ fatal = "none" /\ exitStatus = Success
              ELSE /\ ~selected
                   /\ fatal = IF Len(feed) > 0 THEN OffsetTooLarge
                              ELSE NoEpisodesToDownload
                   /\ exitStatus = ERROR_STATUSES.general

\* --list --reverse with the offset beyond a non-empty feed
C5_Witness ==
    /\ Exited /\ selected /\ opts.list /\ opts.reverse
    /\ Len(feed) = 2 /\ opts.offset = 2
    /\ visited = <<>> /\ targetItems = <<>>
    /\ fatal = NoEpisodesCriteriaList

\* C6 as claimed: a fatal condition aborts the run before any asset download,
\* metadata-file write or ledger insertion.
C6_FatalBeforeAnyWork == fatal # "none" => work = <<>>

\* C6 amended: a fatal condition aborts the run before any per-entry work: no
\* pipeline invocation has been created and nothing counted.  Work done before
\* the abort is feed-level only (podcast image download, feed metadata write
\* and their ledger insertions) and happens only with --include-meta.
C6_FatalBeforeEpisodeWork ==
    fatal # "none" =>
        /\ \A k \in 1..Len(work) : work[k].level = "feed"
        /\ ~opts.includeMeta => (work = <<>> /\ files \in MainFiles /\ ledger \in MainLedgers)
        /\ wpc = <<>>
        /\ numEpisodesDownloaded = 0

\* offset too large, after the podcast image and the feed metadata were written
\* and inserted into the ledger
C6_Witness ==
    /\ fatal = OffsetTooLarge
    /\ opts.includeMeta
    /\ Len(work) = 4
    /\ work[1].op = "download" /\ work[3].op = "writeMeta"
    /\ work[4].op = "writeToArchive"

Succeeded == {k \in 1..Len(wpc) : wpc[k] = "succeeded"}

\* worker j is inside writeToArchive: it has read the ledger and has not yet
\* rewritten it
InArchiveCall(j) == \E c \in archiveCalls : c.worker = j

\* worker k has an insertion to make and has not yet read the ledger
InsertPending(k) == wpc[k] = "insert" /\ ~InArchiveCall(k)

\* C8 as claimed: the read-modify-write of writeToArchive is not mutually
\* exclusive between the workers of a run: while one worker is between its
\* read of the ledger and its rewrite, another worker that has a different key
\* to insert can read the ledger too (the interleaving that loses an update).
C8_NotMutuallyExclusive ==
    \A j, k \in 1..Len(wpc) :
        (/\ InArchiveCall(j) /\ InsertPending(k)
         /\ ItemKey(targetItems[j]) # ItemKey(targetItems[k]))
            => ENABLED ArchiveRead(k)

\* C8 amended: writeToArchive reads, modifies and rewrites the file with
\* synchronous calls and no suspension point in between, so within one run the
\* insertions of concurrent workers do not interleave: at most one worker is
\* between its read and its rewrite, no other worker can read the ledger or
\* take any other step until that rewrite is done, the list a worker read is
\* the content of the file when it rewrites it, and every key a worker has
\* inserted is in the ledger, whatever the order in which the workers complete.
C8_NoLostUpdate ==
    (pc \in {"downloading", "exited"} /\ opts.archive) =>
        /\ Cardinality(archiveCalls) <= 1
        /\ \A c \in archiveCalls : c.archiveResult = getArchive(ledger)
        /\ \A j, k \in 1..Len(wpc) :
              (j # k /\ InArchiveCall(j)) =>
                  /\ ~ENABLED ArchiveRead(k)
                  /\ ~ENABLED WorkerStart(k)
                  /\ \A ok \in BOOLEAN : ~ENABLED WorkerFetched(k, ok)
                  /\ \A outcome \in PostOutcomes : ~ENABLED WorkerFinish(k, outcome)
        /\ \A k \in Succeeded : getIsInArchive(ItemKey(targetItems[k]), ledger)
        /\ \A k \in 1..Len(work) :
              work[k].op = "writeToArchive" => getIsInArchive(work[k].key, ledger)

\* two workers in flight together have different keys to insert into an empty
\* ledger: the second has read the file and not yet rewritten it, and the first
\* cannot read it
C8_Witness ==
    /\ pc = "downloading" /\ opts.archive /\ opts.threads = 2
    /\ Len(wpc) = 2 /\ wpc[1] = "insert" /\ wpc[2] = "insert"
    /\ ItemKey(targetItems[1]) # ItemKey(targetItems[2])
    /\ archiveCalls = {[worker |-> 2, archiveResult |-> <<>>]}
    /\ InsertPending(1)
    /\ ~ENABLED ArchiveRead(1)
    /\ ENABLED ArchiveWrite(2)

AfterDownloads == Exited /\ wpc # <<>>

\* C9 as claimed: success exactly when all selected entries succeeded, "nothing
\* downloaded" exactly when none did, "completed with errors" when some did and
\* the error flag is set; numEpisodesDownloaded = number selected means success.
C9_ExitReflectsOutcome ==
    AfterDownloads =>
        /\ exitStatus = Success <=> Succeeded = 1..Len(wpc)
        /\ exitStatus = ERROR_STATUSES.nothingDownloaded <=> Succeeded = {}
        /\ (Succeeded # {} /\ hasErrors)
              => exitStatus = ERROR_STATUSES.completedWithErrors
        /\ numEpisodesDownloaded = Len(targetItems) => exitStatus = Success

\* C9 amended: "nothing downloaded" exactly when numEpisodesDownloaded is 0;
\* otherwise "completed with errors" exactly when the error flag is set;
\* otherwise success.  A run in which every selected entry was downloaded exits
\* with success only if the error flag is not set, and a run with skipped
\* entries and no error exits with success.
C9_ExitStatus ==
    AfterDownloads =>
        /\ numEpisodesDownloaded = Cardinality(Succeeded)
        /\ exitStatus = ERROR_STATUSES.nothingDownloaded <=> Succeeded = {}
        /\ exitStatus = ERROR_STATUSES.completedWithErrors
              <=> (Succeeded # {} /\ hasErrors)
        /\ exitStatus = Success <=> (Succeeded # {} /\ ~hasErrors)
        /\ (\E k \in 1..Len(wpc) : wpc[k] = "failed") => hasErrors

\* every selected entry downloaded, yet the run exits "completed with errors"
C9_Witness ==
    /\ AfterDownloads
    /\ Len(targetItems) = 2 /\ numEpisodesDownloaded = 2
    /\ hasErrors
    /\ exitStatus = ERROR_STATUSES.completedWithErrors

(***************************************************************************)
(* The field projector.  A value of the object graph is a tagged tuple:    *)
(* <<"s", v>> a scalar, <<"a", elements>> an array, <<"o", entries>> an     *)
(* object whose entries are <<key, value>> pairs in insertion order, and   *)
(* <<"u">> is undefined.  Keys and rules are sequences of characters.      *)
(***************************************************************************)
Scalar(v) == <<"s", v>>
Arr(elems) == <<"a", elems>>
Obj(entries) == <<"o", entries>>
Undefined == <<"u">>
Thrown == <<"throw">>

IsArr(v) == v[1] = "a"
IsObj(v) == v[1] = "o"
IsScalar(v) == v[1] = "s"
IsUndefined(v) == v[1] = "u"

Drop(s, n) == SubSeq(s, n + 1, Len(s))

\* index of the first raw "*" of toks followed by another one, 0 if none
FirstDoubleStar(toks) ==
    LET hits == {k \in 1..(Len(toks) - 1) : toks[k] = "*" /\ toks[k + 1] = "*"}
    IN IF hits = {} THEN 0 ELSE CHOOSE k \in hits : \A j \in hits : k <= j

FirstStar(toks) ==
    LET hits == {k \in 1..Len(toks) : toks[k] = "*"}
    IN IF hits = {} THEN 0 ELSE CHOOSE k \in hits : \A j \in hits : k <= j

\* glob.replace(special, "\\$&").replace("**", ".+").replace("*", "[^.]+"):
\* each String.replace with a string pattern replaces the first occurrence
\* only.  The result is the regex source as tokens: a character stands for
\* itself escaped, ".+" and "[^.]+" are the two wildcards, and a "*" left
\* over is the regex quantifier.
globToRegExp_StarCrossesDots(glob) ==
    [k \in 1..Len(glob) |-> IF glob[k] = "*" THEN ".+" ELSE glob[k]]

globToRegExp(glob) ==
    LET d == FirstDoubleStar(glob)
        afterDouble == IF d = 0 THEN glob
                       ELSE SubSeq(glob, 1, d - 1) \o <<".+">> \o Drop(glob, d + 1)
        t == FirstStar(afterDouble)
    IN IF t = 0 THEN afterDouble
       ELSE SubSeq(afterDouble, 1, t - 1) \o <<"[^.]+">> \o Drop(afterDouble, t)

\* RegExp(source) throws "nothing to repeat" for a quantifier that follows
\* nothing or another quantifier
ValidSource(src) ==
    \A k \in 1..Len(src) :
        src[k] = "*" => (k > 1 /\ src[k - 1] \notin {"*", ".+", "[^.]+"})

\* ^source$ matched against str
RECURSIVE RegexMatch(_, _)
RegexMatch(src, str) ==
    IF src = <<>> THEN str = <<>>
    ELSE IF Len(src) >= 2 /\ src[2] = "*"
        THEN \E n \in 0..Len(str) :
                /\ \A i \in 1..n : str[i] = src[1]
                /\ RegexMatch(Drop(src, 2), Drop(str, n))
    ELSE IF src[1] = ".+"
        THEN \E n \in 1..Len(str) : RegexMatch(Tail(src), Drop(str, n))
    ELSE IF src[1] = "[^.]+"
        THEN \E n \in 1..Len(str) :
                /\ \A i \in 1..n : str[i] # "."
                /\ RegexMatch(Tail(src), Drop(str, n))
    ELSE str # <<>> /\ str[1] = src[1] /\ RegexMatch(Tail(src), Tail(str))

\* one compiled rule
processFieldRule(pattern) ==
    IF pattern # <<>> /\ pattern[1] = "!"
        THEN [include |-> FALSE, pattern |-> globToRegExp(Tail(pattern))]
    ELSE IF Len(pattern) >= 2 /\ pattern[1] = "\\" /\ pattern[2] = "!"
        THEN [include |-> TRUE, pattern |-> globToRegExp(Tail(pattern))]
    ELSE [include |-> TRUE, pattern |-> globToRegExp(pattern)]

processFieldRules(pats) == [k \in 1..Len(pats) |-> processFieldRule(pats[k])]

Reverse(s) == [k \in 1..Len(s) |-> s[Len(s) + 1 - k]]

\* rules.find((rule) => rule.pattern.test(fullKey)), <<>> when none matches
FindRule(rules, fullKey) ==
    LET hits == {k \in 1..Len(rules) : RegexMatch(rules[k].pattern, fullKey)}
    IN IF hits = {} THEN <<>>
       ELSE <<rules[CHOOSE k \in hits : \A j \in hits : k <= j]>>

IsReserved(key) == key = <<"$">> \/ key = <<"_">>

RECURSIVE getToInclude(_, _, _)
RECURSIVE applyEntries(_, _, _)

\* the entries of applyFieldRules(object, rules, prefix)
applyEntries(entries, rules, prefix) ==
    IF entries = <<>> THEN <<>>
    ELSE LET key == entries[1][1]
             value == entries[1][2]
             rest == applyEntries(Tail(entries), rules, prefix)
             toInclude == getToInclude(value, prefix \o key, rules)
         IN IF IsReserved(key) THEN <<entries[1]>> \o rest
            ELSE IF toInclude # Undefined THEN << <<key, toInclude>> >> \o rest
            ELSE rest

RECURSIVE MapInclude(_, _, _)
MapInclude(elems, fullKey, rules) ==
    IF elems = <<>> THEN <<>>
    ELSE LET inc == getToInclude(elems[1], fullKey, rules)
         IN (IF inc # Undefined THEN <<inc>> ELSE <<>>)
                \o MapInclude(Tail(elems), fullKey, rules)

getToInclude(value, fullKey, rules) ==
    IF IsArr(value)
        THEN LET nested == MapInclude(value[2], fullKey, rules)
             IN IF Len(nested) > 0 THEN Arr(nested) ELSE Undefined
    ELSE IF IsObj(value)
        THEN LET nested == applyEntries(value[2], rules, fullKey \o <<".">>)
             IN IF Len(nested) > 0 THEN Obj(nested) ELSE Undefined
    ELSE LET matchingRule == FindRule(rules, fullKey)
         IN IF matchingRule # <<>> /\ matchingRule[1].include THEN value
            ELSE Undefined

applyFieldRules(obj, rules, prefix) == Obj(applyEntries(obj[2], rules, prefix))

getFields_DeclaredOrder(obj, pats) ==
    IF \E k \in 1..Len(pats) : ~ValidSource(processFieldRule(pats[k]).pattern)
        THEN Thrown
        ELSE applyFieldRules(obj, processFieldRules(pats), <<>>)

\* new RegExp throws inside processFieldRules, before any field is visited;
\* rules.reverse() puts the last-declared rule first for rules.find
getFields(obj, pats) ==
    IF \E k \in 1..Len(pats) : ~ValidSource(processFieldRule(pats[k]).pattern)
        THEN Thrown
        ELSE applyFieldRules(obj, Reverse(processFieldRules(pats)), <<>>)

(***************************************************************************)
(* SpecFields: getFields called on a bounded set of object graphs.         *)
(***************************************************************************)
KeyA == <<"a">>
KeyAttrs == <<"$">>
KeyText == <<"_">>
KeyDotted == <<"c", ".", "d">>
KeyEmpty == <<>>
FieldKeys == {KeyA, KeyAttrs, KeyText, KeyDotted, KeyEmpty}

X == Scalar("x")

\* a scalar, a property set to undefined, an empty array, an empty object
Values0 == {X, Undefined, Arr(<<>>), Obj(<<>>)}

Values1 ==
    Values0
    \cup {Arr(<<v>>) : v \in Values0}
    \cup {Arr(<<X, v>>) : v \in Values0}
    \cup {Obj(<< <<k, v>> >>) : k \in FieldKeys, v \in Values0}
    \cup {Arr(<< Obj(<< <<k, X>> >>) >>) : k \in FieldKeys}

Objects ==
    {Obj(<< <<k, v>> >>) : k \in FieldKeys, v \in Values1}
    \cup {Obj(<< <<ks[1], v>>, <<ks[2], w>> >>) :
            ks \in {<<KeyA, KeyAttrs>>, <<KeyA, KeyDotted>>, <<KeyAttrs, KeyText>>},
            v \in Values1, w \in Values1}

RulePool ==
    { <<"*">>, <<"!", "*">>, <<"*", "*">>, <<"a", ".", "*">>, <<"*", "*", ".", "*", "*">> }

RuleLists == UNION {[1..n -> RulePool] : n \in 1..MaxRules}

InitFields ==
    /\ archiveCalls = {}
    /\ object \in Objects
    /\ patterns \in RuleLists
    /\ projected = Undefined
    /\ pc = "getFields"
    /\ feed = <<>>
    /\ opts = DefaultOpts
    /\ ledger = AbsentLedger
    /\ files = {}
    /\ targetItems = <<>>
    /\ visited = <<>>
    /\ selected = FALSE
    /\ work = <<>>
    /\ exitStatus = "running"
    /\ fatal = "none"
    /\ wpc = <<>>
    /\ numEpisodesDownloaded = 0
    /\ hasErrors = FALSE
    /\ ffmpeg = NoFfmpeg

CallGetFields ==
    /\ pc = "getFields"
    /\ projected' = getFields(object, patterns)
    /\ pc' = "projected"
    /\ UNCHANGED <<feed, opts, archiveCalls, ffmpeg, ledger, files, targetItems, visited, selected, work,
                   exitStatus, fatal, wpc, numEpisodesDownloaded, hasErrors, object,
                   patterns>>

NextFields == CallGetFields

SpecFields == InitFields /\ [][NextFields]_vars

Projected == pc = "projected"
IncludeAll == patterns = << <<"*">> >>
ExcludeAll == patterns = << <<"!", "*">> >>

Entries(v) == Range(v[2])

ReservedEntries(v) == {e \in Entries(v) : IsReserved(e[1])}

\* some scalar of v lies outside every reserved key
RECURSIVE HasUnreservedScalar(_)
HasUnreservedScalar(v) ==
    IF IsScalar(v) THEN TRUE
    ELSE IF IsUndefined(v) THEN FALSE
    ELSE IF IsArr(v) THEN \E k \in 1..Len(v[2]) : HasUnreservedScalar(v[2][k])
    ELSE \E k \in 1..Len(v[2]) :
            ~IsReserved(v[2][k][1]) /\ HasUnreservedScalar(v[2][k][2])

RECURSIVE HasReservedKey(_)
HasReservedKey(v) ==
    IF IsScalar(v) \/ IsUndefined(v) THEN FALSE
    ELSE IF IsArr(v) THEN \E k \in 1..Len(v[2]) : HasReservedKey(v[2][k])
    ELSE \E k \in 1..Len(v[2]) :
            IsReserved(v[2][k][1]) \/ HasReservedKey(v[2][k][2])

\* every field is reserved, or has a non-empty key without a dot and holds a
\* scalar other than undefined or a non-empty array of such scalars
Flat(v) ==
    \A e \in Entries(v) :
        \/ IsReserved(e[1])
        \/ /\ e[1] # <<>> /\ "." \notin Range(e[1])
           /\ \/ IsScalar(e[2])
              \/ /\ IsArr(e[2]) /\ e[2][2] # <<>>
                 /\ \A k \in 1..Len(e[2][2]) : IsScalar(e[2][2][k])

\* C10 as claimed: with the single rule "*" the result is structurally equal to
\* the object; with the single rule "!*" the result has no key but the
\* reserved "$" and "_", which pass through.
C10_RoundTrip ==
    Projected =>
        /\ IncludeAll => projected = object
        /\ ExcludeAll =>
              /\ \A e \in Entries(projected) : IsReserved(e[1])
              /\ Entries(projected) = ReservedEntries(object)

\* C10 amended: "*" compiles to ^[^.]+$ and matches the non-empty, dot-free
\* top-level key paths only.  With the single rule "*" the result is a
\* structurally equal copy when every non-reserved field has a non-empty
\* dot-free key and holds a scalar other than undefined or a non-empty array
\* of such scalars; in general reserved entries and such top-level scalars
\* are kept unchanged, no key is added, no value undefined is kept outside a
\* reserved key, a scalar under the empty key or under a key with a dot is
\* dropped, no empty array or empty object is kept outside a reserved key, and
\* a nested object keeps no scalar outside a reserved key.
\* With the single rule "!*" reserved top-level
\* entries pass through unchanged, no scalar outside a reserved key survives,
\* and the result is empty when the graph holds no reserved key at any depth
\* (a nested object or array that holds a reserved key is kept).
C10_TopLevelProjection ==
    Projected =>
        /\ IncludeAll =>
              /\ Flat(object) => projected = object
              /\ ReservedEntries(object) \subseteq Entries(projected)
              /\ \A e \in Entries(object) :
                    (IsScalar(e[2]) /\ e[1] # <<>> /\ "." \notin Range(e[1]))
                        => e \in Entries(projected)
              /\ \A e \in Entries(projected) :
                    IsReserved(e[1]) \/
                        /\ ~IsUndefined(e[2])
                        /\ IsScalar(e[2]) => (e[1] # <<>> /\ "." \notin Range(e[1]))
              /\ \A e \in Entries(projected) : \E f \in Entries(object) : f[1] = e[1]
              /\ \A e \in Entries(projected) :
                    (~IsReserved(e[1]) /\ (IsArr(e[2]) \/ IsObj(e[2]))) => e[2][2] # <<>>
              /\ \A e \in Entries(projected) :
                    (~IsReserved(e[1]) /\ IsObj(e[2])) => ~HasUnreservedScalar(e[2])
        /\ ExcludeAll =>
              /\ ReservedEntries(object) \subseteq Entries(projected)
              /\ ~HasUnreservedScalar(projected)
              /\ ~HasReservedKey(object) => projected = Obj(<<>>)
              /\ \A e \in Entries(projected) : IsReserved(e[1]) \/ HasReservedKey(e[2])

\* "*" applied to {a: {a: "x"}, $: "x"}: the nested scalar is dropped
C10_Witness ==
    /\ Projected /\ IncludeAll
    /\ object = Obj(<< <<KeyA, Obj(<< <<KeyA, X>> >>)>>, <<KeyAttrs, X>> >>)
    /\ projected = Obj(<< <<KeyAttrs, X>> >>)

\* the key paths of the scalars of v, v sitting at fullKey; `under` says
\* whether the scalars at and below a reserved key count
RECURSIVE ScalarPaths(_, _, _)
ScalarPaths(v, fullKey, under) ==
    IF IsScalar(v) THEN {fullKey}
    ELSE IF IsUndefined(v) THEN {}
    ELSE IF IsArr(v)
        THEN UNION {ScalarPaths(v[2][k], fullKey, under) : k \in 1..Len(v[2])}
    ELSE UNION {IF IsReserved(v[2][k][1]) /\ ~under THEN {}
                ELSE ScalarPaths(v[2][k][2], fullKey \o <<".">> \o v[2][k][1], under) :
                    k \in 1..Len(v[2])}

\* the key paths of the scalar fields of a top-level object
FieldPaths(obj, under) ==
    UNION {IF IsReserved(obj[2][k][1]) /\ ~under THEN {}
           ELSE ScalarPaths(obj[2][k][2], obj[2][k][1], under) : k \in 1..Len(obj[2])}

\* the declared rules, by position, that match a key path
MatchingRules(path) ==
    {k \in 1..Len(patterns) : RegexMatch(processFieldRule(patterns[k]).pattern, path)}

\* some rule matches the path and the last-declared one that does is an include
LastMatchIncludes(path) ==
    /\ MatchingRules(path) # {}
    /\ LET last == CHOOSE k \in MatchingRules(path) : \A j \in MatchingRules(path) : j <= k
       IN processFieldRule(patterns[last]).include

RulesCompile == \A k \in 1..Len(patterns) : ValidSource(processFieldRule(patterns[k]).pattern)

\* the key paths of the scalar fields getFields kept; a throw keeps nothing
Kept(under) == IF projected = Thrown THEN {} ELSE FieldPaths(projected, under)

\* C11 as claimed: for every scalar field and every rule list, the field is
\* kept if and only if some rule matches its dotted key path and the
\* last-declared matching rule is an include rule.
C11_LastRuleWinsEverywhere ==
    Projected => Kept(TRUE) = {p \in FieldPaths(object, TRUE) : LastMatchIncludes(p)}

\* C11 amended: when every rule compiles, a scalar field that is neither a
\* reserved key ("$", "_") nor below one is kept if and only if some rule
\* matches its dotted key path and the last-declared matching rule is an
\* include rule; a reserved entry is copied whole whatever the rules say, so
\* every scalar at or below a reserved key is kept as long as the objects
\* around it are; when some rule does not compile getFields throws and keeps
\* nothing.
C11_LastRuleWins ==
    Projected =>
        /\ ~RulesCompile <=> projected = Thrown
        /\ RulesCompile =>
              /\ Kept(FALSE) = {p \in FieldPaths(object, FALSE) : LastMatchIncludes(p)}
              /\ ReservedEntries(projected) = ReservedEntries(object)
              /\ Kept(TRUE) \subseteq FieldPaths(object, TRUE)

\* "*" then "!*" applied to {a: "x", $: "x"}: both rules match both paths;
\* the later "!*" drops a, and the reserved "$" is kept all the same
C11_Witness ==
    /\ Projected
    /\ patterns = << <<"*">>, <<"!", "*">> >>
    /\ object = Obj(<< <<KeyA, X>>, <<KeyAttrs, X>> >>)
    /\ MatchingRules(KeyA) = {1, 2}
    /\ MatchingRules(KeyAttrs) = {1, 2}
    /\ projected = Obj(<< <<KeyAttrs, X>> >>)

(***************************************************************************)
(* runFfmpeg.  ffmpeg.out and ffmpeg.tmp are what the output path and the  *)
(* temporary path hold: "absent", the complete "original", a "stale" file  *)
(* left at the temporary path by an earlier run, a "partial" file ffmpeg   *)
(* is still writing, or the complete "transcoded" file.  Every call to the *)
(* filesystem and the await of the command are steps of their own.         *)
(***************************************************************************)
Mp3Path == OutputPath(<<"e", ".mp3">>)
M4aPath == OutputPath(<<"e", ".m4a">>)

\* outputPath.endsWith(".mp3")
EndsWithMp3(path) == path # <<>> /\ path[Len(path)] = ".mp3"

tmpMp3Path(outputPath) == outputPath \o <<".tmp", ".mp3">>

\* metaKeysToValues, in key order; the items of the model carry no itunes
\* block and no author, so artist is "" and track is feed.items.length - itemIndex
metaKeysToValues(items, itemIndex) ==
    LET item == items[itemIndex + 1]
        date == IF item.pubDate # NoDate THEN <<ToString(DayOf(item.pubDate))>> ELSE <<>>
    IN << <<"album", FeedTitle>>, <<"artist", <<>> >>, <<"title", item.title>>,
          <<"track", <<ToString(Len(items) - itemIndex)>> >>, <<"date", date>>,
          <<"album_artist", FeedTitle>> >>

\* the -metadata segments of the keys whose value is truthy
metadataString(items, itemIndex) ==
    LET kv == metaKeysToValues(items, itemIndex)
    IN SelectSeq(kv, LAMBDA e : e[2] # <<>>)

ffmpegCommand(items, itemIndex, outputPath, o) ==
    <<"ffmpeg", "-loglevel", "quiet", "-i", outputPath>>
        \o (IF o.bitrate # <<>> THEN <<"-b:a", o.bitrate>> ELSE <<>>)
        \o (IF o.mono THEN <<"-ac", "1">> ELSE <<>>)
        \o (IF o.addMp3Metadata
                THEN <<"-map_metadata", "0">> \o metadataString(items, itemIndex)
                        \o <<"-codec", "copy">>
                ELSE <<>>)
        \o <<tmpMp3Path(outputPath)>>

NotMp3 == "Not an .mp3 file. Unable to run ffmpeg."
ExecError == "exec"

\* from the entry of runFfmpeg to the start of the command
RunFfmpegStart ==
    /\ pc = "runFfmpeg"
    /\ IF ffmpeg.out = "absent"
          THEN pc' = "returned" /\ UNCHANGED ffmpeg
       ELSE IF ~EndsWithMp3(ffmpeg.outputPath)
          THEN pc' = "threw" /\ ffmpeg' = [ffmpeg EXCEPT !.error = NotMp3]
       ELSE /\ pc' = "exec"
            /\ ffmpeg' = [ffmpeg EXCEPT !.command =
                             ffmpegCommand(feed, ffmpeg.itemIndex, ffmpeg.outputPath, opts)]
    /\ UNCHANGED <<feed, opts, archiveCalls, ledger, files, targetItems, visited, selected, work,
                   exitStatus, fatal, wpc, numEpisodesDownloaded, hasErrors, object,
                   patterns, projected>>

\* the running command opens its output file and writes to it
FfmpegWrites ==
    /\ pc = "exec"
    /\ ffmpeg.tmp \in {"absent", "stale"}
    /\ ffmpeg' = [ffmpeg EXCEPT !.tmp = "partial"]
    /\ UNCHANGED <<feed, opts, archiveCalls, ledger, files, pc, targetItems, visited, selected, work,
                   exitStatus, fatal, wpc, numEpisodesDownloaded, hasErrors, object,
                   patterns, projected>>

\* the command exits with status 0: execWithPromise resolves
ExecResolves ==
    /\ pc = "exec"
    /\ ffmpeg.tmp = "partial"
    /\ ffmpeg' = [ffmpeg EXCEPT !.tmp = "transcoded"]
    /\ pc' = "unlink"
    /\ UNCHANGED <<feed, opts, archiveCalls, ledger, files, targetItems, visited, selected, work,
                   exitStatus, fatal, wpc, numEpisodesDownloaded, hasErrors, object,
                   patterns, projected>>

\* the command fails, before or after it created its output file: the catch
\* block removes the temporary file if there is one and rethrows
ExecRejects ==
    /\ pc = "exec"
    /\ ffmpeg' = [ffmpeg EXCEPT !.tmp = "absent", !.error = ExecError]
    /\ pc' = "threw"
    /\ UNCHANGED <<feed, opts, archiveCalls, ledger, files, targetItems, visited, selected, work,
                   exitStatus, fatal, wpc, numEpisodesDownloaded, hasErrors, object,
                   patterns, projected>>

\* fs.unlinkSync(outputPath)
UnlinkOutput ==
    /\ pc = "unlink"
    /\ ffmpeg' = [ffmpeg EXCEPT !.out = "absent"]
    /\ pc' = "rename"
    /\ UNCHANGED <<feed, opts, archiveCalls, ledger, files, targetItems, visited, selected, work,
                   exitStatus, fatal, wpc, numEpisodesDownloaded, hasErrors, object,
                   patterns, projected>>

\* fs.renameSync(tmpMp3Path, outputPath)
RenameTmp ==
    /\ pc = "rename"
    /\ ffmpeg' = [ffmpeg EXCEPT !.out = ffmpeg.tmp, !.tmp = "absent"]
    /\ pc' = "returned"
    /\ UNCHANGED <<feed, opts, archiveCalls, ledger, files, targetItems, visited, selected, work,
                   exitStatus, fatal, wpc, numEpisodesDownloaded, hasErrors, object,
                   patterns, projected>>

FfmpegFeeds == SeqsUpTo(ItemPool, MaxMainLen) \ {<<>>}
Bitrates == {<<>>, <<"48k">>}

FfmpegOpts ==
    {[DefaultOpts EXCEPT !.bitrate = br, !.mono = mo, !.addMp3Metadata = md] :
        br \in Bitrates, mo \in BOOLEAN, md \in BOOLEAN}

InitFfmpeg ==
    /\ archiveCalls = {}
    /\ feed \in FfmpegFeeds
    /\ opts \in FfmpegOpts
    /\ \E i \in 0..(Len(feed) - 1), path \in {Mp3Path, M4aPath},
          o \in {"absent", "original"}, t \in {"absent", "stale"} :
            ffmpeg = [itemIndex |-> i, outputPath |-> path, out |-> o, tmp |-> t,
                      command |-> <<>>, error |-> "none"]
    /\ pc = "runFfmpeg"
    /\ ledger = AbsentLedger
    /\ files = {}
    /\ targetItems = <<>>
    /\ visited = <<>>
    /\ selected = FALSE
    /\ work = <<>>
    /\ exitStatus = "running"
    /\ fatal = "none"
    /\ wpc = <<>>
    /\ numEpisodesDownloaded = 0
    /\ hasErrors = FALSE
    /\ object = <<>>
    /\ patterns = <<>>
    /\ projected = <<>>

NextFfmpeg ==
    \/ RunFfmpegStart
    \/ FfmpegWrites
    \/ ExecResolves
    \/ ExecRejects
    \/ UnlinkOutput
    \/ RenameTmp

SpecFfmpeg == InitFfmpeg /\ [][NextFfmpeg]_vars

\* runFfmpeg got past its two guards and started the command
Transcoding == ffmpeg.command # <<>>

\* C12: at every point of runFfmpeg, between its filesystem steps too, the
\* output path holds the complete original or the complete transcoded file;
\* when the command fails the temporary file is deleted, the original is
\* unchanged at the output path and the error is rethrown.
C12_AtomicReplace ==
    Transcoding =>
        /\ ffmpeg.out \in {"original", "transcoded"}
        /\ (pc = "threw" /\ ffmpeg.error = ExecError) =>
              (ffmpeg.tmp = "absent" /\ ffmpeg.out = "original")

\* what the code does keep: the failure branch of C12, and on success the
\* complete transcoded file at the output path once renameSync has run; a
\* complete file is at the output path or at the temporary path at every point
C12_FailureLeavesOriginal ==
    Transcoding =>
        /\ pc = "threw" => (ffmpeg.error = ExecError /\ ffmpeg.tmp = "absent"
                                /\ ffmpeg.out = "original")
        /\ pc \in {"exec", "unlink"} => ffmpeg.out = "original"
        /\ pc = "rename" => (ffmpeg.out = "absent" /\ ffmpeg.tmp = "transcoded")
        /\ pc = "returned" => (ffmpeg.out = "transcoded" /\ ffmpeg.tmp = "absent")

(***************************************************************************)
(* SpecMeta: writeFeedMeta and writeItemMeta called in a row on one output *)
(* directory and one ledger.  work lists the calls: the function, its      *)
(* outputPath and key, the ledger and the files before it, what it wrote   *)
(* and how it ended.                                                       *)
(***************************************************************************)
FeedMetaKey == getArchiveKey(archiveUrl, outputMetaName)

episodeMetaName(item) == getArchiveFilename(item.pubDate, item.title, ".meta.json")

MetaItems == {ItemA, ItemB}

\* no key: the caller passed none
MetaKeys(name) == {<<>>, getArchiveKey(archiveUrl, name)}

MetaPaths == {OutputPath(outputMetaName)} \cup {OutputPath(episodeMetaName(it)) : it \in MetaItems}

MetaLedgers ==
    {AbsentLedger, PresentLedger(<<>>), PresentLedger(<<FeedMetaKey>>),
     PresentLedger(<<getArchiveKey(archiveUrl, episodeMetaName(ItemA)), FeedMetaKey>>)}

MetaOpts ==
    {[DefaultOpts EXCEPT !.archive = ar, !.override = ov] : ar \in BOOLEAN, ov \in BOOLEAN}

\* one call on the list of calls
MetaCall(fn, outputPath, key, r) ==
    [op |-> fn, outputPath |-> outputPath, key |-> key, before |-> ledger,
     filesBefore |-> files, effects |-> r.effects, result |-> r.result]

CallWriteFeedMeta(key, ok) ==
    /\ pc = "meta"
    /\ Len(work) < MaxMetaCalls
    /\ LET outputPath == OutputPath(outputMetaName)
           r == writeMetaFile(outputPath, key, "feed", opts, ledger, files, ok)
       IN /\ ledger' = r.ledger
          /\ files' = r.files
          /\ work' = Append(work, MetaCall("writeFeedMeta", outputPath, key, r))
    /\ UNCHANGED <<feed, opts, archiveCalls, ffmpeg, pc, targetItems, visited, selected, exitStatus,
                   fatal, wpc, numEpisodesDownloaded, hasErrors, object, patterns,
                   projected>>

CallWriteItemMeta(item, key, ok) ==
    /\ pc = "meta"
    /\ Len(work) < MaxMetaCalls
    /\ LET outputPath == OutputPath(episodeMetaName(item))
           r == writeMetaFile(outputPath, key, "episode", opts, ledger, files, ok)
       IN /\ ledger' = r.ledger
          /\ files' = r.files
          /\ work' = Append(work, MetaCall("writeItemMeta", outputPath, key, r))
    /\ UNCHANGED <<feed, opts, archiveCalls, ffmpeg, pc, targetItems, visited, selected, exitStatus,
                   fatal, wpc, numEpisodesDownloaded, hasErrors, object, patterns,
                   projected>>

InitMeta ==
    /\ archiveCalls = {}
    /\ ledger \in MetaLedgers
    /\ files \in SUBSET MetaPaths
    /\ opts \in MetaOpts
    /\ pc = "meta"
    /\ feed = <<>>
    /\ targetItems = <<>>
    /\ visited = <<>>
    /\ selected = FALSE
    /\ work = <<>>
    /\ exitStatus = "running"
    /\ fatal = "none"
    /\ wpc = <<>>
    /\ numEpisodesDownloaded = 0
    /\ hasErrors = FALSE
    /\ object = <<>>
    /\ patterns = <<>>
    /\ projected = <<>>
    /\ ffmpeg = NoFfmpeg

NextMeta ==
    \/ \E key \in MetaKeys(outputMetaName), ok \in BOOLEAN : CallWriteFeedMeta(key, ok)
    \/ \E item \in MetaItems, ok \in BOOLEAN :
          \E key \in MetaKeys(episodeMetaName(item)) : CallWriteItemMeta(item, key, ok)

SpecMeta == InitMeta /\ [][NextMeta]_vars

\* the call work[n] was given an archive and a key
Ledgered(n) == opts.archive /\ work[n].key # <<>>

\* the ledger and the files the call work[n] left behind
LedgerAfter(n) == IF n = Len(work) THEN ledger ELSE work[n + 1].before
FilesAfter(n) == IF n = Len(work) THEN files ELSE work[n + 1].filesBefore

\* the call work[n] returned having written no file and no ledger
WroteNothing(n) ==
    /\ work[n].effects = <<>>
    /\ work[n].result = "archived"
    /\ LedgerAfter(n) = work[n].before
    /\ FilesAfter(n) = work[n].filesBefore

\* C13: writeFeedMeta or writeItemMeta called with an archive and a key that
\* is in the ledger writes no file and leaves the ledger unchanged, with
\* --override too; called with a key that is not in the ledger, if it returns
\* without error the key is in the ledger afterwards, and a second call with
\* the same arguments writes nothing.
C13_MetaIdempotent ==
    pc = "meta" =>
        \A n \in 1..Len(work) :
            Ledgered(n) =>
                /\ getIsInArchive(work[n].key, work[n].before) => WroteNothing(n)
                /\ (~getIsInArchive(work[n].key, work[n].before)
                        /\ work[n].result = "returned") =>
                      /\ getIsInArchive(work[n].key, LedgerAfter(n))
                      /\ (n < Len(work) /\ work[n + 1].op = work[n].op
                            /\ work[n + 1].outputPath = work[n].outputPath
                            /\ work[n + 1].key = work[n].key) => WroteNothing(n + 1)

\* with --override and --archive: a first writeFeedMeta writes the file and
\* inserts the key, the same call again writes nothing
C13_Witness ==
    /\ pc = "meta" /\ Len(work) = 2
    /\ opts.archive /\ opts.override
    /\ work[1].op = "writeFeedMeta" /\ work[1].key = FeedMetaKey
    /\ work[1].outputPath \in work[1].filesBefore
    /\ ~getIsInArchive(FeedMetaKey, work[1].before)
    /\ work[1].effects = <<Effect("writeMeta", "feed", FeedMetaKey),
                           Effect("writeToArchive", "feed", FeedMetaKey)>>
    /\ work[2].op = "writeFeedMeta" /\ work[2].key = FeedMetaKey
    /\ work[2].effects = <<>>
    /\ ledger = work[2].before

====
